---- MODULE Spec2Model ----
(***************************************************************************)
(* The browser bridge of crates/openfang-runtime/src/browser_bridge.py:    *)
(* a process that starts one browser session, writes a ready line, then    *)
(* reads JSON commands from standard input one line at a time, answers     *)
(* each with one JSON line on standard output, and tears the session down  *)
(* after a Close command or at end of input.                               *)
(*                                                                         *)
(* The browser driver (Playwright) is the environment: every driver call   *)
(* either returns or raises, and the model takes both outcomes.            *)
(***************************************************************************)
EXTENDS Integers, Sequences, FiniteSets, TLC

VARIABLES
    playwright,  \* whether the driver library can be imported
    pc,          \* position of main(): "start", "read", "body", "cleanup", "done"
    stdin,       \* the lines the parent process sends, in order
    pos,         \* number of lines of stdin read so far
    line,        \* the loop variable `line` of main()
    out,         \* the response lines written to standard output, in order
    page,        \* state of the live page: its URL and its DOM
    session,     \* the driver, browser, context and page handles of main()
    log,         \* history: reads, dispatches, driver calls, responses, releases
    exitStatus,  \* exit status of the process, -1 while it runs
    doc,         \* extract_readable alone: the body of the page it is run on
    xpc,         \* extract_readable alone: "off", "ready" or "done"
    extracted,   \* extract_readable alone: what it returned, and its calls
    agent,       \* Agent.run: the callbacks registered and the input line
    apc,         \* Agent.run: "off", "start", "except", "finally" or "exited"
    aout,        \* Agent.run: the lines written to standard output
    alog,        \* Agent.run: what was called and logged, in order
    aexc,        \* Agent.run: the exception in flight
    aexit,       \* Agent.run: exit status of the process, -1 while it runs
    resp,        \* _stream: the bytes of the response body
    readSize,    \* _stream: how many bytes one read returns, the last one aside
    offset,      \* _stream: how many bytes of the body were read
    buffer,      \* _stream: the characters of the line not yet complete
    yielded,     \* _stream: the events yielded, in order
    spc          \* _stream: "off", "reading", "returned" or "raised"

bridgeVars == <<playwright, pc, stdin, pos, line, out, page, session, log, exitStatus>>
extractVars == <<doc, xpc, extracted>>
agentVars == <<agent, apc, aout, alog, aexc, aexit>>
streamVars == <<resp, readSize, offset, buffer, yielded, spc>>
vars == <<bridgeVars, extractVars, agentVars, streamVars>>

\* Longest input the model feeds to the bridge.
MaxLines == 2

\* Most children of the body of a page extract_readable is run on alone.
MaxKids == 2

(***************************************************************************)
(* JSON values and input lines                                             *)
(***************************************************************************)

\* A JSON string, JSON null (Python None), and the absence of a key.
Str(s) == [ty |-> "str", s |-> s]
Null == [ty |-> "null", s |-> ""]
Absent == [ty |-> "absent", s |-> ""]

\* A JSON object, by the four keys the bridge looks at.
Obj(a, u, s, t) == [action |-> a, url |-> u, selector |-> s, text |-> t]
NoObj == Obj(Absent, Absent, Absent, Absent)

\* A line of n whitespace characters, a line that is no JSON, a JSON document.
WsLine(n) == [t |-> "ws", n |-> n, ty |-> "none", o |-> NoObj]
TextLine == [t |-> "text", n |-> 0, ty |-> "none", o |-> NoObj]
JsonLine(ty, o) == [t |-> "json", n |-> 0, ty |-> ty, o |-> o]

Cmd(a) == JsonLine("obj", Obj(Str(a), Absent, Absent, Absent))

Lines ==
    { WsLine(0), WsLine(2), TextLine,
      JsonLine("list", NoObj),
      JsonLine("obj", NoObj),
      JsonLine("obj", Obj(Null, Absent, Absent, Absent)),
      Cmd("Close"), Cmd("navigate"),
      Cmd("Navigate"), JsonLine("obj", Obj(Str("Navigate"), Str("u1"), Absent, Absent)),
      Cmd("Click"), JsonLine("obj", Obj(Str("Click"), Absent, Str("s1"), Absent)),
      Cmd("Type"),
      JsonLine("obj", Obj(Str("Type"), Absent, Str("s1"), Absent)),
      JsonLine("obj", Obj(Str("Type"), Absent, Str("s1"), Str(""))),
      JsonLine("obj", Obj(Str("Type"), Absent, Str("s1"), Str("hello"))),
      Cmd("Screenshot"), Cmd("ReadPage") }

Inputs == UNION { [1..n -> Lines] : n \in 0..MaxLines }

\* str.strip(): a whitespace-only line becomes the empty string.
Strip(l) == IF l.t = "ws" THEN [l EXCEPT !.n = 0] ELSE l

\* The blank-line test left out: every line goes on to the parser.
IsBlank_Never(l) == FALSE

\* `not line` on the stripped line.
IsBlank(l) == l.t = "ws" /\ l.n = 0

\* The required-parameter tests left out.
Truthy_Always(v) == TRUE

\* Python truthiness of a value taken from the command.
Truthy(v) == v.ty = "str" /\ v.s # ""

\* str(v) as an f-string formats it.
PyStr(v) == IF v.ty = "str" THEN v.s ELSE "None"

\* dict.get(key, ""): the value under the key, the empty string without it.
Get(o, k) == IF o[k].ty = "absent" THEN Str("") ELSE o[k]

(***************************************************************************)
(* Exceptions and responses                                                *)
(***************************************************************************)

Exc(kind, msg) == [kind |-> kind, msg |-> msg]
NoExc == Exc("", "")

JSONDecodeError == Exc("JSONDecodeError", "Expecting value: line 1 column 1 (char 0)")
AttributeError == Exc("AttributeError", "'list' object has no attribute 'get'")

TimeoutError == Exc("TimeoutError", "Timeout 30000ms exceeded.")
DriverError == Exc("Error", "net::ERR_NAME_NOT_RESOLVED")

\* What a driver call raises when it fails: a navigation fails with a timeout
\* or a network error, any other call with a timeout.
DriverErrors(call) ==
    IF call = "goto" THEN { TimeoutError, DriverError } ELSE { TimeoutError }

Ok(data) == [success |-> TRUE, data |-> data]
\* A failure that carries an empty data next to its error.
Err_WithData(msg) == [success |-> FALSE, error |-> msg, data |-> [status |-> ""]]

Err(msg) == [success |-> FALSE, error |-> msg]

ReadyResponse == Ok([status |-> "ready"])
ClosedResponse == Ok([status |-> "closed"])
ImportErrorResponse ==
    Err("playwright not installed. Run: pip install playwright && playwright install chromium")

\* The error without the kind of the exception.
ExcResponse_NoKind(e) == Err(e.msg)

\* The response main() writes for an exception a command raised.
ExcResponse(e) == Err(e.kind \o ": " \o e.msg)

\* A driver call that returned, and one that raised.
Returned(call) == [call |-> call, raised |-> FALSE]
Raised(call) == [call |-> call, raised |-> TRUE]

\* History events: "read", "dispatch", "call", "call_raised", "respond" and
\* "release", each with the number of the input line it belongs to (0 outside
\* the loop).
Ev(e, i, what) == [e |-> e, i |-> i, what |-> what]
CallEvents(i, calls) ==
    [k \in 1..Len(calls) |->
        Ev(IF calls[k].raised THEN "call_raised" ELSE "call", i, calls[k].call)]

(***************************************************************************)
(* The page, as the driver shows it                                        *)
(***************************************************************************)

BlankPage == [url |-> "about:blank", dom |-> "d0"]

\* The pages a successful goto(url) can leave loaded.
Loaded(url) == { [url |-> url, dom |-> d] : d \in {"d1", "d2"} }

\* The pages a successful click can leave: the same page, or a followed link.
Clicked(p) == { p, [url |-> "u2", dom |-> "d2"] }

\* The page after fill() changed the value of a form field.
Filled(p) == [p EXCEPT !.dom = "d3"]

TitleOf(p) == "title:" \o p.dom
ScreenshotOf(p) == "png:" \o p.dom

(***************************************************************************)
(* Text: a string as its runs of equal characters, so that a text of       *)
(* 50,000 characters is a short value.  A run is n copies of c; the        *)
(* placeholder and the truncation marker are runs of one long piece.       *)
(***************************************************************************)

Run(c, n) == [c |-> c, n |-> n]

\* The same string with empty runs dropped and neighbouring equal runs joined.
RECURSIVE Norm(_)
Norm(t) ==
    IF t = <<>> THEN <<>>
    ELSE LET h == Head(t)
             r == Norm(Tail(t))
         IN  IF h.n = 0 THEN r
             ELSE IF r # <<>> /\ Head(r).c = h.c
             THEN <<Run(h.c, h.n + Head(r).n)>> \o Tail(r)
             ELSE <<h>> \o r

\* a + b
Cat(a, b) == Norm(a \o b)

\* len(t)
RECURSIVE TLen(_)
TLen(t) == IF t = <<>> THEN 0 ELSE Len(Head(t).c) * Head(t).n + TLen(Tail(t))

\* t[:k], for a text of one-character runs.
RECURSIVE Take(_, _)
Take(t, k) ==
    IF k <= 0 \/ t = <<>> THEN <<>>
    ELSE IF Head(t).n <= k THEN <<Head(t)>> \o Take(Tail(t), k - Head(t).n)
    ELSE <<Run(Head(t).c, k)>>

IsSpace(c) == c \in {" ", "\n"}

RECURSIVE TrimLeft(_)
TrimLeft(t) ==
    IF t = <<>> THEN <<>>
    ELSE IF IsSpace(Head(t).c) THEN TrimLeft(Tail(t)) ELSE t

RECURSIVE TrimRight(_)
TrimRight(t) ==
    IF t = <<>> THEN <<>>
    ELSE IF IsSpace(t[Len(t)].c) THEN TrimRight(SubSeq(t, 1, Len(t) - 1)) ELSE t

\* String.prototype.trim()
Trim(t) == TrimRight(TrimLeft(t))

\* The replace left out: the joined lines as they are.
CollapseNewlines_Never(t) == Norm(t)

\* .replace(/\n{3,}/g, '\n\n')
CollapseNewlines(t) ==
    [i \in DOMAIN Norm(t) |->
        IF Norm(t)[i].c = "\n" /\ Norm(t)[i].n >= 3 THEN Run("\n", 2) ELSE Norm(t)[i]]

\* lines.join('\n')
RECURSIVE Join(_)
Join(lines) ==
    IF lines = <<>> THEN <<>>
    ELSE IF Len(lines) = 1 THEN Norm(lines[1])
    ELSE Cat(lines[1], Cat(<<Run("\n", 1)>>, Join(Tail(lines))))

\* The concatenation of a sequence of sequences.
RECURSIVE ConcatAll(_)
ConcatAll(ss) == IF ss = <<>> THEN <<>> ELSE Head(ss) \o ConcatAll(Tail(ss))

(***************************************************************************)
(* The DOM, and the script extract_readable evaluates in the page          *)
(***************************************************************************)

\* A text node, and an element: its tag, what marks it as a content region
\* ("role=main", ".content", "#content" or ""), its href, its children.
TextNode(t) == [tag |-> "#text", mark |-> "", href |-> <<>>, text |-> t, kids |-> <<>>]
El(tag, mark, href, kids) ==
    [tag |-> tag, mark |-> mark, href |-> href, text |-> <<>>, kids |-> kids]
Body(kids) == El("body", "", <<>>, kids)

\* const remove = [...]
Denylist ==
    {"script", "style", "nav", "footer", "header", "aside",
     "iframe", "noscript", "svg", "canvas"}

\* The removal left out: the clone is walked as it is.
RemoveDenied_Nothing(n) == n

\* The clone after remove.forEach(tag => querySelectorAll(tag).forEach(el => el.remove())).
RECURSIVE RemoveDenied(_)
RemoveDenied(n) ==
    LET kept == SelectSeq(n.kids, LAMBDA k : k.tag \notin Denylist)
    IN  [n EXCEPT !.kids = [i \in DOMAIN kept |-> RemoveDenied(kept[i])]]

\* The elements below n, in document order.
RECURSIVE Descendants(_)
Descendants(n) ==
    ConcatAll([i \in DOMAIN n.kids |->
                  IF n.kids[i].tag = "#text" THEN <<>>
                  ELSE <<n.kids[i]>> \o Descendants(n.kids[i])])

\* 'main, article, [role="main"], .content, #content'
MatchesMain(n) ==
    \/ n.tag \in {"main", "article"}
    \/ n.mark \in {"role=main", ".content", "#content"}

\* const source = clone.querySelector(...) || clone: querySelector returns the
\* first element in document order that matches any selector of the list.
ContentSource(clone) ==
    LET found == SelectSeq(Descendants(clone), MatchesMain)
    IN  IF found = <<>> THEN clone ELSE found[1]

\* node.textContent
RECURSIVE textContent(_)
textContent(n) ==
    IF n.tag = "#text" THEN Norm(n.text)
    ELSE Norm(ConcatAll([i \in DOMAIN n.kids |-> textContent(n.kids[i])]))

Headings == {"h1", "h2", "h3", "h4", "h5", "h6"}
Blocks == {"p", "div", "section", "td", "th"}

\* The lines walk(node) pushes.
RECURSIVE walk(_)
walk(n) ==
    IF n.tag = "#text"
    THEN (IF Trim(Norm(n.text)) = <<>> THEN <<>> ELSE <<Trim(Norm(n.text))>>)
    ELSE IF n.tag \in Headings
    THEN <<Cat(<<Run("\n", 1), Run("#", 2), Run(" ", 1)>>, Trim(textContent(n)))>>
    ELSE IF n.tag = "li"
    THEN <<Cat(<<Run("-", 1), Run(" ", 1)>>, Trim(textContent(n)))>>
    ELSE IF n.tag = "a" /\ n.href # <<>>
    THEN <<Cat(<<Run("[", 1)>>,
               Cat(Trim(textContent(n)),
                   Cat(<<Run("]", 1), Run("(", 1)>>, Cat(n.href, <<Run(")", 1)>>))))>>
    ELSE IF n.tag \in Blocks
    THEN Append(ConcatAll([i \in DOMAIN n.kids |-> walk(n.kids[i])]), <<>>)
    ELSE ConcatAll([i \in DOMAIN n.kids |-> walk(n.kids[i])])

\* The script without the clone: the removals hit the live body.
LiveBody_NoClone(body) == RemoveDenied(body)

\* The live body once the script has run: document.body.cloneNode(true) gave
\* the removals a copy to work on, the body itself is as it was.
LiveBody(body) == body

\* What page.evaluate(...) returns on a page with this body.
Evaluate(body) ==
    Trim(CollapseNewlines(Join(walk(ContentSource(RemoveDenied(body))))))

\* The elements whose text the browser does not render.
NotRendered == {"script", "style", "noscript", "iframe", "canvas"}

\* The rendered text nodes below n, trimmed, in document order.
RECURSIVE RenderedTexts(_)
RenderedTexts(n) ==
    IF n.tag = "#text"
    THEN (IF Trim(Norm(n.text)) = <<>> THEN <<>> ELSE <<Trim(Norm(n.text))>>)
    ELSE IF n.tag \in NotRendered THEN <<>>
    ELSE ConcatAll([i \in DOMAIN n.kids |-> RenderedTexts(n.kids[i])])

\* What page.inner_text("body") returns: the rendered text of the body.
InnerTextOf(body) == Join(RenderedTexts(body))

\* max_chars = 50000
max_chars == 50000

\* "\n\n[Truncated - <n> total chars]" (the dash of the source is a long one)
TruncationMarker(n) ==
    <<Run("\n", 2), Run("[Truncated - " \o ToString(n) \o " total chars]", 1)>>

\* A text of exactly max_chars characters cut as well.
Truncate_AtLimit(t) ==
    IF TLen(t) >= max_chars THEN Take(t, max_chars) \o TruncationMarker(TLen(t)) ELSE t

\* if len(content) > max_chars: content = content[:max_chars] + marker
Truncate(t) ==
    IF TLen(t) > max_chars THEN Take(t, max_chars) \o TruncationMarker(TLen(t)) ELSE t

Placeholder == <<Run("(could not extract page content)", 1)>>

\* extract_readable without the plain-text fallback: once the script has
\* thrown, the placeholder is returned at once.
ExtractFrom_NoFallback(body) ==
    { [content |-> Truncate(Evaluate(body)), calls |-> <<Returned("evaluate")>>,
       path |-> "structured", live |-> LiveBody(body)],
      [content |-> Placeholder, calls |-> <<Raised("evaluate")>>,
       path |-> "placeholder", live |-> body] }

\* extract_readable on a page with this body: what it returns, the driver
\* calls it makes, the return statement it leaves by, and the body of the
\* live page after it.
ExtractFrom(body) ==
    { [content |-> Truncate(Evaluate(body)), calls |-> <<Returned("evaluate")>>,
       path |-> "structured", live |-> LiveBody(body)],
      [content |-> Truncate(InnerTextOf(body)),
       calls |-> <<Raised("evaluate"), Returned("inner_text")>>, path |-> "fallback",
       live |-> body],
      [content |-> Placeholder,
       calls |-> <<Raised("evaluate"), Raised("inner_text")>>, path |-> "placeholder",
       live |-> body] }

\* The text of n characters c.
Chars(c, n) == <<Run(c, n)>>

\* The bodies of the pages the bridge visits.
DomTree(dom) ==
    IF dom = "d0" THEN Body(<<>>)
    ELSE IF dom = "d1"
    THEN Body(<<El("nav", "", <<>>, <<TextNode(Chars("x", 4))>>),
                El("main", "", <<>>,
                   <<El("h1", "", <<>>, <<TextNode(Chars("a", 5))>>),
                     El("p", "", <<>>, <<TextNode(Chars("b", 9))>>)>>)>>)
    ELSE IF dom = "d2"
    THEN Body(<<El("header", "", <<>>, <<TextNode(Chars("x", 4))>>),
                El("div", "", <<>>, <<TextNode(Chars("c", max_chars + 1))>>)>>)
    ELSE IF dom = "d3"
    THEN Body(<<El("div", "", <<>>,
                   <<El("a", "", Chars("u", 8), <<TextNode(Chars("a", 3))>>),
                     El("li", "", <<>>, <<TextNode(Chars("b", 2))>>)>>)>>)
    ELSE Body(<<El("div", "", <<>>, <<TextNode(Chars("c", 1))>>)>>)

\* The name of the document with this body; "d9" is a document no command
\* of the bridge loads.
DomOf(body) ==
    IF \E d \in {"d0", "d1", "d2", "d3"} : DomTree(d) = body
    THEN CHOOSE d \in {"d0", "d1", "d2", "d3"} : DomTree(d) = body
    ELSE "d9"

StructuredText(p) == Evaluate(DomTree(p.dom))
InnerText(p) == InnerTextOf(DomTree(p.dom))

\* extract_readable(page): the content, the driver calls made for it, and
\* the page as it leaves it.
extract_readable(p) ==
    { [content |-> x.content, calls |-> x.calls, path |-> x.path,
       page |-> [p EXCEPT !.dom = DomOf(x.live)]]
      : x \in ExtractFrom(DomTree(p.dom)) }

(***************************************************************************)
(* handle_command: the outcomes of one dispatch                            *)
(***************************************************************************)

Ret(result, p, calls) ==
    [raised |-> FALSE, result |-> result, exc |-> NoExc, page |-> p, calls |-> calls]
Raise(e, p, calls) ==
    [raised |-> TRUE, result |-> Err(""), exc |-> e, page |-> p, calls |-> calls]
\* After the calls before, the call raises and nothing in the command catches it.
Raises(p, before, call) ==
    { Raise(e, p, Append(before, Raised(call))) : e \in DriverErrors(call) }

Navigate(p, cmd) ==
    LET url == Get(cmd, "url") IN
    IF ~Truthy(url)
    THEN { Ret(Err("Missing 'url' parameter"), p, <<>>) }
    ELSE Raises(p, <<>>, "goto")
         \cup UNION { Raises(q, <<Returned("goto")>>, "title")
                      \cup { Ret(Ok([title |-> TitleOf(q), url |-> x.page.url,
                                     content |-> x.content]),
                                 x.page,
                                 <<Returned("goto"), Returned("title")>> \o x.calls)
                             : x \in extract_readable(q) }
                      : q \in Loaded(url.s) }

\* The rest of Click once one of its two clicks, the last of the calls, went through.
AfterClick(p, cmd, calls) ==
    LET selector == Get(cmd, "selector") IN
    UNION { Raises(q, calls, "wait_for_load_state")
            \cup Raises(q, Append(calls, Returned("wait_for_load_state")), "title")
            \cup { Ret(Ok([clicked |-> selector, title |-> TitleOf(q), url |-> q.url]),
                       q, calls \o <<Returned("wait_for_load_state"), Returned("title")>>) }
            : q \in Clicked(p) }

\* Click without the text fallback: a failed selector click fails the command.
Click_NoFallback(p, cmd) ==
    LET selector == Get(cmd, "selector") IN
    IF ~Truthy(selector)
    THEN { Ret(Err("Missing 'selector' parameter"), p, <<>>) }
    ELSE AfterClick(p, cmd, <<Returned("click")>>)
         \cup Raises(p, <<>>, "click")

Click(p, cmd) ==
    LET selector == Get(cmd, "selector") IN
    IF ~Truthy(selector)
    THEN { Ret(Err("Missing 'selector' parameter"), p, <<>>) }
    ELSE AfterClick(p, cmd, <<Returned("click")>>)
         \cup Raises(p, <<Raised("click")>>, "get_by_text.click")
         \cup AfterClick(p, cmd, <<Raised("click"), Returned("get_by_text.click")>>)

\* Type with the two parameter tests in the other order.
Type_TextFirst(p, cmd) ==
    LET selector == Get(cmd, "selector")
        text == Get(cmd, "text")
    IN  IF ~Truthy(text)
        THEN { Ret(Err("Missing 'text' parameter"), p, <<>>) }
        ELSE IF ~Truthy(selector)
        THEN { Ret(Err("Missing 'selector' parameter"), p, <<>>) }
        ELSE Raises(p, <<>>, "fill")
             \cup { Ret(Ok([typed |-> text, selector |-> selector]), Filled(p),
                        <<Returned("fill")>>) }

Type(p, cmd) ==
    LET selector == Get(cmd, "selector")
        text == Get(cmd, "text")
    IN  IF ~Truthy(selector)
        THEN { Ret(Err("Missing 'selector' parameter"), p, <<>>) }
        ELSE IF ~Truthy(text)
        THEN { Ret(Err("Missing 'text' parameter"), p, <<>>) }
        ELSE Raises(p, <<>>, "fill")
             \cup { Ret(Ok([typed |-> text, selector |-> selector]), Filled(p),
                        <<Returned("fill")>>) }

Screenshot(p, cmd) ==
    Raises(p, <<>>, "screenshot")
    \cup { Ret(Ok([image_base64 |-> ScreenshotOf(p), format |-> "png", url |-> p.url]),
               p, <<Returned("screenshot")>>) }

\* ReadPage leaving another document behind than the one it read.
ReadPage_Reloads(p, cmd) ==
    Raises(p, <<>>, "title")
    \cup { Ret(Ok([title |-> TitleOf(p), url |-> p.url, content |-> x.content]),
               [p EXCEPT !.dom = "d3"], <<Returned("title")>> \o x.calls)
           : x \in extract_readable(p) }

ReadPage(p, cmd) ==
    Raises(p, <<>>, "title")
    \cup { Ret(Ok([title |-> TitleOf(p), url |-> x.page.url, content |-> x.content]),
               x.page, <<Returned("title")>> \o x.calls)
           : x \in extract_readable(p) }

\* The error without the action it names.
UnknownAction_NoName(action) == Err("Unknown action")

UnknownAction(action) == Err("Unknown action: " \o PyStr(action))

handle_command(p, action, cmd) ==
    IF action = Str("Navigate") THEN Navigate(p, cmd)
    ELSE IF action = Str("Click") THEN Click(p, cmd)
    ELSE IF action = Str("Type") THEN Type(p, cmd)
    ELSE IF action = Str("Screenshot") THEN Screenshot(p, cmd)
    ELSE IF action = Str("ReadPage") THEN ReadPage(p, cmd)
    ELSE IF action = Str("Close") THEN { Ret(ClosedResponse, p, <<>>) }
    ELSE { Ret(UnknownAction(action), p, <<>>) }

(***************************************************************************)
(* main                                                                    *)
(***************************************************************************)

\* One pass of the try/except of the command loop on the stripped, non-blank
\* line l, the i-th of the input: the value of `action` after it, the response
\* written, the page left, and the events, in order.
TryCommand(p, l, i) ==
    IF l.t # "json"
    THEN { [action |-> Null, response |-> ExcResponse(JSONDecodeError), page |-> p,
            events |-> <<Ev("respond", i, "")>>] }
    ELSE IF l.ty # "obj"
    THEN { [action |-> Null, response |-> ExcResponse(AttributeError), page |-> p,
            events |-> <<Ev("respond", i, "")>>] }
    ELSE LET action == Get(l.o, "action") IN
         { [action |-> action,
            response |-> IF h.raised THEN ExcResponse(h.exc) ELSE h.result,
            page |-> h.page,
            events |-> <<Ev("dispatch", i, PyStr(action))>>
                       \o CallEvents(i, h.calls)
                       \o <<Ev("respond", i, "")>>]
           : h \in handle_command(p, action, l.o) }

\* The break left out.
BreaksLoop_Never(action) == FALSE

\* The loop also left when the command failed before its action was known.
BreaksLoop_OnFailure(action) == action = Str("Close") \/ action = Str("") \/ action = Null

\* `if action == "Close": break`
BreaksLoop(action) == action = Str("Close")

NoSession == [pw |-> "none", browser |-> "none", context |-> "none", page |-> "none"]
LiveSession == [pw |-> "live", browser |-> "live", context |-> "live", page |-> "live"]

\* The handles acquired when the k-th startup call is the one that raises.
StartedUpTo(k) ==
    [pw |-> IF k > 1 THEN "live" ELSE "none",
     browser |-> IF k > 2 THEN "live" ELSE "none",
     context |-> IF k > 3 THEN "live" ELSE "none",
     page |-> "none"]

\* Nothing extracted yet.
NoExtraction == [content |-> <<>>, calls |-> <<>>, path |-> "", live |-> Body(<<>>)]

\* extract_readable is not run alone.
ExtractOff ==
    /\ doc = Body(<<>>)
    /\ xpc = "off"
    /\ extracted = NoExtraction

\* No exception in flight.
NoRaise == [kind |-> "none", msg |-> "", code |-> 0]

\* No response is streamed.
StreamOff ==
    /\ resp = <<>>
    /\ readSize = 1
    /\ offset = 0
    /\ buffer = <<>>
    /\ yielded = <<>>
    /\ spc = "off"

\* No agent script is run.
AgentOff ==
    /\ agent = [handler |-> FALSE, setup |-> "none", teardown |-> "none",
                input |-> "empty", outcome |-> "str"]
    /\ apc = "off"
    /\ aout = <<>>
    /\ alog = <<>>
    /\ aexc = NoRaise
    /\ aexit = -1

Init ==
    /\ playwright \in BOOLEAN
    /\ pc = "start"
    /\ stdin \in Inputs
    /\ pos = 0
    /\ line = WsLine(0)
    /\ out = <<>>
    /\ page = BlankPage
    /\ session = NoSession
    /\ log = <<>>
    /\ exitStatus = -1
    /\ ExtractOff
    /\ AgentOff
    /\ StreamOff

\* The import fails and the return is left out: main() goes on to start a
\* driver it never imported, and nothing catches that.
ImportFails_NoReturn ==
    /\ pc = "start"
    /\ ~playwright
    /\ out' = Append(out, ImportErrorResponse)
    /\ log' = Append(log, Ev("respond", 0, ""))
    /\ pc' = "done"
    /\ exitStatus' = 1
    /\ UNCHANGED <<streamVars, agentVars, extractVars, playwright, stdin, pos, line, page, session>>

\* The import of the driver library fails: one error response, and return.
ImportFails ==
    /\ pc = "start"
    /\ ~playwright
    /\ out' = Append(out, ImportErrorResponse)
    /\ log' = Append(log, Ev("respond", 0, ""))
    /\ pc' = "done"
    /\ exitStatus' = 0
    /\ UNCHANGED <<streamVars, agentVars, extractVars, playwright, stdin, pos, line, page, session>>

\* One of start(), launch(), new_context(), new_page() raises: nothing catches it.
StartupRaises ==
    /\ pc = "start"
    /\ playwright
    /\ \E k \in 1..4 : session' = StartedUpTo(k)
    /\ pc' = "done"
    /\ exitStatus' = 1
    /\ UNCHANGED <<streamVars, agentVars, extractVars, playwright, stdin, pos, line, out, page, log>>

\* Startup without the ready line.
StartupSucceeds_Silent ==
    /\ pc = "start"
    /\ playwright
    /\ session' = LiveSession
    /\ page' = BlankPage
    /\ pc' = "read"
    /\ UNCHANGED <<streamVars, agentVars, extractVars, playwright, stdin, pos, line, out, log, exitStatus>>

\* Startup succeeds: the session is live and the ready line is written.
StartupSucceeds ==
    /\ pc = "start"
    /\ playwright
    /\ session' = LiveSession
    /\ page' = BlankPage
    /\ out' = Append(out, ReadyResponse)
    /\ log' = Append(log, Ev("respond", 0, ""))
    /\ pc' = "read"
    /\ UNCHANGED <<streamVars, agentVars, extractVars, playwright, stdin, pos, line, exitStatus>>

\* `for line in sys.stdin` yields the next line.
ReadLine ==
    /\ pc = "read"
    /\ pos < Len(stdin)
    /\ pos' = pos + 1
    /\ line' = stdin[pos + 1]
    /\ log' = Append(log, Ev("read", pos + 1, ""))
    /\ pc' = "body"
    /\ UNCHANGED <<streamVars, agentVars, extractVars, playwright, stdin, out, page, session, exitStatus>>

\* End of input leaves main() without the cleanup block.
EndOfInput_NoCleanup ==
    /\ pc = "read"
    /\ pos = Len(stdin)
    /\ pc' = "done"
    /\ exitStatus' = 0
    /\ UNCHANGED <<streamVars, agentVars, extractVars, playwright, stdin, pos, line, out, page, session, log>>

\* `for line in sys.stdin` reaches end of input.
EndOfInput ==
    /\ pc = "read"
    /\ pos = Len(stdin)
    /\ pc' = "cleanup"
    /\ UNCHANGED <<streamVars, agentVars, extractVars, playwright, stdin, pos, line, out, page, session, log, exitStatus>>

\* The body of the loop on a blank line: `continue`.
SkipBlank ==
    /\ pc = "body"
    /\ IsBlank(Strip(line))
    /\ line' = Strip(line)
    /\ pc' = "read"
    /\ UNCHANGED <<streamVars, agentVars, extractVars, playwright, stdin, pos, out, page, session, log, exitStatus>>

\* The body of the loop on a line with content.
Command ==
    /\ pc = "body"
    /\ ~IsBlank(Strip(line))
    /\ line' = Strip(line)
    /\ \E r \in TryCommand(page, Strip(line), pos) :
          /\ out' = Append(out, r.response)
          /\ page' = r.page
          /\ log' = log \o r.events
          /\ pc' = IF BreaksLoop(r.action) THEN "cleanup" ELSE "read"
    /\ UNCHANGED <<streamVars, agentVars, extractVars, playwright, stdin, pos, session, exitStatus>>

\* The browser closed before its context.
ReleaseSteps_BrowserFirst == <<"browser.close", "context.close", "pw.stop">>

\* The calls of the cleanup block, in its order.
ReleaseSteps == <<"context.close", "browser.close", "pw.stop">>

\* The release steps the cleanup block attempts when the first f of them
\* return: one try block holds all three calls, so the first one that raises
\* ends it.
CleanupAttempts(f) == IF f < 3 THEN f + 1 ELSE 3

\* The cleanup block; f steps return, and the next one, if any, raises.
Cleanup ==
    /\ pc = "cleanup"
    /\ \E f \in 0..3 :
          /\ session' = [pw |-> IF f >= 3 THEN "closed" ELSE session.pw,
                         browser |-> IF f >= 2 THEN "closed" ELSE session.browser,
                         context |-> IF f >= 1 THEN "closed" ELSE session.context,
                         page |-> IF f >= 1 THEN "closed" ELSE session.page]
          /\ log' = log \o [k \in 1..CleanupAttempts(f) |->
                               Ev("release", IF k <= f THEN 1 ELSE 0, ReleaseSteps[k])]
    /\ pc' = "done"
    /\ exitStatus' = 0
    /\ UNCHANGED <<streamVars, agentVars, extractVars, playwright, stdin, pos, line, out, page>>

Next ==
    \/ ImportFails
    \/ StartupRaises
    \/ StartupSucceeds
    \/ ReadLine
    \/ EndOfInput
    \/ SkipBlank
    \/ Command
    \/ Cleanup

Spec == Init /\ [][Next]_vars

(***************************************************************************)
(* extract_readable alone, on the pages of a bounded family                *)
(***************************************************************************)

\* What the body of a page is made of.  The letter x is the text of the
\* denylisted elements and of no other node.
Elements ==
    { El("nav", "", <<>>, <<TextNode(Chars("x", 4))>>),
      El("script", "", <<>>, <<TextNode(Chars("x", 2))>>),
      El("main", "", <<>>, <<El("p", "", <<>>, <<TextNode(Chars("a", 3))>>)>>),
      El("article", "", <<>>, <<TextNode(Chars("b", 3))>>),
      El("div", "role=main", <<>>, <<TextNode(Chars("c", 2))>>),
      El("div", ".content", <<>>,
         <<El("aside", "", <<>>, <<TextNode(Chars("x", 3))>>), TextNode(Chars("d", 2))>>),
      El("section", "#content", <<>>, <<El("li", "", <<>>, <<TextNode(Chars("e", 2))>>)>>),
      El("h1", "", <<>>, <<TextNode(Chars("f", 2))>>),
      El("a", "", Chars("u", 4), <<TextNode(Chars("g", 2))>>),
      El("span", "", <<>>, <<TextNode(Chars(" ", 2))>>),
      El("p", "", <<>>, <<TextNode(Chars("h", max_chars - 1))>>),
      El("p", "", <<>>, <<TextNode(Chars("h", max_chars))>>),
      El("p", "", <<>>, <<TextNode(Chars("h", max_chars + 1))>>),
      El("td", "", <<>>, <<TextNode(Chars("j", 2))>>),
      TextNode(Chars("i", 1)) }

Docs == { Body(kids) : kids \in UNION { [1..n -> Elements] : n \in 0..MaxKids } }

\* The bridge is not run.
BridgeOff ==
    /\ playwright = TRUE
    /\ pc = "off"
    /\ stdin = <<>>
    /\ pos = 0
    /\ line = WsLine(0)
    /\ out = <<>>
    /\ page = BlankPage
    /\ session = NoSession
    /\ log = <<>>
    /\ exitStatus = -1

InitExtract ==
    /\ BridgeOff
    /\ AgentOff
    /\ StreamOff
    /\ doc \in Docs
    /\ xpc = "ready"
    /\ extracted = NoExtraction

\* One run of extract_readable on the page.
Extract ==
    /\ xpc = "ready"
    /\ \E r \in ExtractFrom(doc) : extracted' = r /\ doc' = r.live
    /\ xpc' = "done"
    /\ UNCHANGED <<streamVars, agentVars, bridgeVars>>

NextExtract == Extract

SpecExtract == InitExtract /\ [][NextExtract]_vars

(***************************************************************************)
(* Agent.run of the SDK: one input, one handler call, one response         *)
(***************************************************************************)

\* The scripts run: whether a handler is registered; what on_setup and
\* on_teardown registered ("none", or a function that "returns" or "raises");
\* the first line of standard input; what the handler does with the message.
Agents ==
    [handler : BOOLEAN,
     setup : {"none", "returns", "raises"},
     teardown : {"none", "returns", "raises"},
     input : {"empty", "object", "object_nomsg", "list", "text"},
     outcome : {"str", "dict_text", "dict_meta", "dict_plain", "none",
                "unserialisable", "raises", "exits"}]

PyException(msg) == [kind |-> "Exception", msg |-> msg, code |-> 0]
\* sys.exit(code): SystemExit, which `except Exception` does not catch.
SystemExit(code) == [kind |-> "SystemExit", msg |-> "", code |-> code]

\* read_input(): the dict returned, or the exception of json.loads.
read_input(a) ==
    IF a.input = "empty"
    THEN [raised |-> FALSE, isdict |-> TRUE, message |-> "env", exc |-> NoRaise]
    ELSE IF a.input = "object"
    THEN [raised |-> FALSE, isdict |-> TRUE, message |-> "hi", exc |-> NoRaise]
    ELSE IF a.input = "object_nomsg"
    THEN [raised |-> FALSE, isdict |-> TRUE, message |-> "", exc |-> NoRaise]
    ELSE IF a.input = "list"
    THEN [raised |-> FALSE, isdict |-> FALSE, message |-> "", exc |-> NoRaise]
    ELSE [raised |-> TRUE, isdict |-> FALSE, message |-> "",
          exc |-> PyException("Expecting value: line 1 column 1 (char 0)")]

\* respond(text, metadata): the line printed.
Response(text) == [type |-> "response", text |-> text]
ResponseWith(text, metadata) == [type |-> "response", text |-> text, metadata |-> metadata]

\* What the body of the try block does up to the point it ends or raises.
Ended(events, written) == [events |-> events, written |-> written, exc |-> NoRaise]
Threw(events, exc) == [events |-> events, written |-> <<>>, exc |-> exc]

\* The handler call and the respond that follows it.
HandleAndRespond(a, message, before) ==
    LET called == Append(before, "handler")
        echo == "You said: " \o message
    IN  IF a.outcome = "raises" THEN Threw(called, PyException("boom"))
        ELSE IF a.outcome = "exits" THEN Threw(called, SystemExit(2))
        ELSE IF a.outcome = "unserialisable"
        THEN Threw(Append(called, "respond"),
                   PyException("Object of type set is not JSON serializable"))
        ELSE IF a.outcome = "str"
        THEN Ended(Append(called, "respond"), <<Response(echo)>>)
        ELSE IF a.outcome = "dict_text"
        THEN Ended(Append(called, "respond"), <<Response(echo)>>)
        ELSE IF a.outcome = "dict_meta"
        THEN Ended(Append(called, "respond"), <<ResponseWith(echo, [k |-> "v"])>>)
        ELSE IF a.outcome = "dict_plain"
        THEN Ended(Append(called, "respond"), <<Response("{'reply': '" \o echo \o "'}")>>)
        ELSE Ended(Append(called, "respond"), <<Response("None")>>)

\* The try block of run(): setup, read_input, the two data.get, the handler,
\* respond.
TryBlock(a) ==
    LET afterSetup == IF a.setup = "none" THEN <<>> ELSE <<"setup">>
        data == read_input(a)
    IN  IF a.setup = "raises" THEN Threw(afterSetup, PyException("setup failed"))
        ELSE IF data.raised THEN Threw(Append(afterSetup, "read_input"), data.exc)
        ELSE IF ~data.isdict
        THEN Threw(Append(afterSetup, "read_input"),
                   PyException("'list' object has no attribute 'get'"))
        ELSE HandleAndRespond(a, data.message, Append(afterSetup, "read_input"))

InitAgent ==
    /\ BridgeOff
    /\ ExtractOff
    /\ StreamOff
    /\ agent \in Agents
    /\ apc = "start"
    /\ aout = <<>>
    /\ alog = <<>>
    /\ aexc = NoRaise
    /\ aexit = -1

\* if self._handler is None: log(...); sys.exit(1), before the try statement.
NoHandler ==
    /\ apc = "start"
    /\ ~agent.handler
    /\ alog' = Append(alog, "log: No message handler registered")
    /\ aexit' = 1
    /\ apc' = "exited"
    /\ UNCHANGED <<streamVars, bridgeVars, extractVars, agent, aout, aexc>>

\* The try block, to its end or to the statement that raises.
Try ==
    /\ apc = "start"
    /\ agent.handler
    /\ alog' = alog \o TryBlock(agent).events
    /\ aout' = aout \o TryBlock(agent).written
    /\ aexc' = TryBlock(agent).exc
    /\ apc' = IF TryBlock(agent).exc.kind = "Exception" THEN "except" ELSE "finally"
    /\ UNCHANGED <<streamVars, bridgeVars, extractVars, agent, aexit>>

\* The except clause without its respond: the error is only logged.
Except_Silent ==
    /\ apc = "except"
    /\ alog' = Append(alog, "log: Agent error: " \o aexc.msg)
    /\ aexc' = SystemExit(1)
    /\ apc' = "finally"
    /\ UNCHANGED <<streamVars, bridgeVars, extractVars, agent, aout, aexit>>

\* except Exception as e: log(...); respond(f"Error: {e}"); sys.exit(1)
Except ==
    /\ apc = "except"
    /\ alog' = alog \o <<"log: Agent error: " \o aexc.msg, "respond">>
    /\ aout' = Append(aout, Response("Error: " \o aexc.msg))
    /\ aexc' = SystemExit(1)
    /\ apc' = "finally"
    /\ UNCHANGED <<streamVars, bridgeVars, extractVars, agent, aexit>>

\* The finally clause with no try around teardown: its exception leaves
\* run() and ends the process with status 1.
Finally_TeardownPropagates ==
    /\ apc = "finally"
    /\ alog' = alog \o (IF agent.teardown = "none" THEN <<>> ELSE <<"teardown">>)
    /\ aexit' = IF agent.teardown = "raises" THEN 1
                ELSE IF aexc.kind = "SystemExit" THEN aexc.code ELSE 0
    /\ apc' = "exited"
    /\ UNCHANGED <<streamVars, bridgeVars, extractVars, agent, aout, aexc>>

\* The finally clause: teardown, its exception logged and dropped; then run()
\* returns and the script ends, or the SystemExit in flight ends the process.
Finally ==
    /\ apc = "finally"
    /\ alog' = alog \o (IF agent.teardown = "none" THEN <<>>
                         ELSE IF agent.teardown = "returns" THEN <<"teardown">>
                         ELSE <<"teardown", "log: Teardown error: teardown failed">>)
    /\ aexit' = IF aexc.kind = "SystemExit" THEN aexc.code ELSE 0
    /\ apc' = "exited"
    /\ UNCHANGED <<streamVars, bridgeVars, extractVars, agent, aout, aexc>>

NextAgent ==
    \/ NoHandler
    \/ Try
    \/ Except
    \/ Finally

SpecAgent == InitAgent /\ [][NextAgent]_vars

(***************************************************************************)
(* OpenFang._stream of the REST client: server-sent events, read in chunks *)
(***************************************************************************)

\* Most segments of a response body, and the largest read size tried.  The
\* client reads 4096 bytes at a time; the bodies here are a few bytes long,
\* so the read size is drawn from 1..MaxRead to put the chunk boundaries at
\* every place of the body.
MaxSegments == 2
MaxRead == 3

\* A body is a sequence of bytes.  An ASCII byte is written as its character;
\* "C3", "A9" are the two bytes of one character, written "U+E9" once decoded.
DataPrefix == <<"d", "a", "t", "a", ":", " ">>
DONE == <<"[", "D", "O", "N", "E", "]">>
DataLine(payload) == DataPrefix \o payload \o <<"\n">>

Segments ==
    { DataLine(<<"1">>),
      DataLine(<<"{", "}">>),
      DataLine(<<"x">>),
      DataLine(<<"\"", "C3", "A9", "\"">>),
      DataLine(DONE),
      DataPrefix \o <<"1", "\r", "\n">>,
      <<":", "\n">>,
      DataPrefix \o <<"1">> }

Bodies == { ConcatAll(segs) : segs \in UNION { [1..n -> Segments] : n \in 0..MaxSegments } }

\* chunk.decode(): the characters of the bytes, or UnicodeDecodeError when a
\* character of the chunk lacks one of its bytes.
RECURSIVE decode(_)
decode(bytes) ==
    IF bytes = <<>> THEN [ok |-> TRUE, s |-> <<>>]
    ELSE IF Head(bytes) = "C3"
    THEN (IF Len(bytes) >= 2 /\ bytes[2] = "A9"
          THEN LET rest == decode(SubSeq(bytes, 3, Len(bytes)))
               IN  [ok |-> rest.ok, s |-> <<"U+E9">> \o rest.s]
          ELSE [ok |-> FALSE, s |-> <<>>])
    ELSE IF Head(bytes) = "A9" THEN [ok |-> FALSE, s |-> <<>>]
    ELSE LET rest == decode(Tail(bytes))
         IN  [ok |-> rest.ok, s |-> <<Head(bytes)>> \o rest.s]

\* s.split("\n")
RECURSIVE split(_)
split(s) ==
    IF \A k \in DOMAIN s : s[k] # "\n" THEN <<s>>
    ELSE LET i == CHOOSE k \in DOMAIN s : s[k] = "\n" /\ \A j \in 1..(k - 1) : s[j] # "\n"
         IN  <<SubSeq(s, 1, i - 1)>> \o split(SubSeq(s, i + 1, Len(s)))

Whitespace == {" ", "\t", "\r", "\n"}

\* line.strip()
RECURSIVE strip(_)
strip(s) ==
    IF s = <<>> THEN <<>>
    ELSE IF Head(s) \in Whitespace THEN strip(Tail(s))
    ELSE IF s[Len(s)] \in Whitespace THEN strip(SubSeq(s, 1, Len(s) - 1))
    ELSE s

\* line.startswith("data: ")
startswith(l, prefix) == Len(l) >= Len(prefix) /\ SubSeq(l, 1, Len(prefix)) = prefix

\* The texts json.loads accepts, among the payloads of the bodies.
ValidJson == { <<"1">>, <<"{", "}">>, <<"\"", "U+E9", "\"">> }

\* try: yield json.loads(data_str) / except JSONDecodeError: yield {"raw": data_str}
Event(payload) ==
    IF payload \in ValidJson THEN [kind |-> "json", text |-> payload]
    ELSE [kind |-> "raw", text |-> payload]

\* The for loop over the complete lines: the events yielded, and whether a
\* [DONE] payload made the generator return.
RECURSIVE EventsOf(_)
EventsOf(lines) ==
    IF lines = <<>> THEN [ev |-> <<>>, done |-> FALSE]
    ELSE LET line_ == strip(Head(lines))
             data_str == SubSeq(line_, 7, Len(line_))
             rest == EventsOf(Tail(lines))
         IN  IF ~startswith(line_, DataPrefix) THEN rest
             ELSE IF data_str = DONE THEN [ev |-> <<>>, done |-> TRUE]
             ELSE [ev |-> <<Event(data_str)>> \o rest.ev, done |-> rest.done]

\* lines.pop() taken: all the pieces of the split but the last.
Front(lines) == SubSeq(lines, 1, Len(lines) - 1)

InitStream ==
    /\ BridgeOff
    /\ ExtractOff
    /\ AgentOff
    /\ resp \in Bodies
    /\ readSize \in 1..MaxRead
    /\ offset = 0
    /\ buffer = <<>>
    /\ yielded = <<>>
    /\ spc = "reading"

\* The chunk resp.read returns next: readSize bytes, fewer at the end.
NextChunk ==
    SubSeq(resp, offset + 1,
           IF offset + readSize <= Len(resp) THEN offset + readSize ELSE Len(resp))

\* One pass of the while loop on a chunk with content: decode, split, keep the
\* last piece, yield for the complete lines, return at [DONE].
ReadChunk ==
    /\ spc = "reading"
    /\ NextChunk # <<>>
    /\ offset' = offset + Len(NextChunk)
    /\ IF ~decode(NextChunk).ok
       THEN spc' = "raised" /\ UNCHANGED <<buffer, yielded>>
       ELSE LET lines == split(buffer \o decode(NextChunk).s)
                r == EventsOf(Front(lines))
            IN  /\ buffer' = lines[Len(lines)]
                /\ yielded' = yielded \o r.ev
                /\ spc' = IF r.done THEN "returned" ELSE "reading"
    /\ UNCHANGED <<bridgeVars, extractVars, agentVars, resp, readSize>>

\* if not chunk: break, and resp.close(); what is left in the buffer is dropped.
EndOfBody ==
    /\ spc = "reading"
    /\ NextChunk = <<>>
    /\ spc' = "closed"
    /\ UNCHANGED <<bridgeVars, extractVars, agentVars, resp, readSize, offset, buffer, yielded>>

NextStream ==
    \/ ReadChunk
    \/ EndOfBody

SpecStream == InitStream /\ [][NextStream]_vars

(***************************************************************************)
(* Properties                                                              *)
(***************************************************************************)

\* Startup succeeded: the page of the session was opened.
Started == session.page # "none"

\* The lines whose pass through the loop body is over.
Handled == IF pc = "body" THEN pos - 1 ELSE pos

RespondEvents == SelectSeq(log, LAMBDA ev : ev.e = "respond")
ReleaseEvents == SelectSeq(log, LAMBDA ev : ev.e = "release")

\* The line numbers the responses after the first one answer, in output order.
Answered == [k \in 1..(Len(RespondEvents) - 1) |-> RespondEvents[k + 1].i]

WhitespaceOnly(l) == l.t = "ws"
IsObject(l) == l.t = "json" /\ l.ty = "obj"
IsCloseLine(l) == IsObject(l) /\ l.o.action = [ty |-> "str", s |-> "Close"]
Malformed(l) ==
    \/ l.t = "text"
    \/ l.t = "json" /\ l.ty # "obj"
    \/ IsObject(l) /\ l.o.action.ty = "absent"

IsCall(ev) == ev.e \in {"call", "call_raised"}

\* The events the step appends to the history.
NewEvents == SubSeq(log', Len(log) + 1, Len(log'))
\* The step writes exactly one response line.
WritesOne == Len(out') = Len(out) + 1 /\ SubSeq(out', 1, Len(out)) = out
LastOut == out'[Len(out')]
IsFailure(r) == r.success = FALSE /\ DOMAIN r = {"success", "error"} /\ r.error # ""

\* C1: after the ready line, the responses answer exactly the non-blank lines
\* whose loop body is over, one response each and in input order; a line is
\* read only after every earlier non-blank line was answered, and a response
\* is written only after its line was read.
C1_OneResponsePerLineInOrder ==
    Started =>
        /\ Len(out) = Len(RespondEvents)
        /\ Answered = SelectSeq([i \in 1..Handled |-> i],
                                LAMBDA i : ~WhitespaceOnly(stdin[i]))
        /\ \A m, n \in DOMAIN log :
              (log[m].e = "read" /\ log[n].e = "respond" /\ log[n].i > 0) =>
                  /\ log[n].i < log[m].i => n < m
                  /\ log[n].i = log[m].i => m < n

C1_Witness ==
    /\ Started /\ pc = "done" /\ pos = 2
    /\ WhitespaceOnly(stdin[1]) /\ stdin[1].n > 0
    /\ ~WhitespaceOnly(stdin[2])
    /\ Answered = <<2>>

\* C2: when startup succeeds, the first line on standard output is the ready
\* response, no later line is a ready response, and it is written before any
\* line is read or any command dispatched; without a started session nothing
\* is read.
C2_ReadyFirstAndOnce ==
    /\ Started =>
          /\ Len(out) >= 1
          /\ out[1] = [success |-> TRUE, data |-> [status |-> "ready"]]
          /\ \A k \in 2..Len(out) :
                out[k] # [success |-> TRUE, data |-> [status |-> "ready"]]
          /\ log[1] = [e |-> "respond", i |-> 0, what |-> ""]
    /\ ~Started => pos = 0 /\ \A k \in DOMAIN log : log[k].e = "respond"

C2_Witness ==
    /\ Started /\ pc = "read" /\ pos = 0 /\ Len(stdin) > 0
    /\ out = <<[success |-> TRUE, data |-> [status |-> "ready"]]>>

\* C3: a processed Close command is answered by exactly one response, which
\* is {success:true, data:{status:"closed"}}; the loop has then stopped, and
\* no later line is read, dispatched or answered.
C3_CloseStopsTheLoop ==
    \A i \in 1..Handled :
        IsCloseLine(stdin[i]) =>
            /\ pos = i
            /\ pc \in {"cleanup", "done"}
            /\ \A k \in DOMAIN log : log[k].i <= i
            /\ Len(out) = Len(RespondEvents)
            /\ Cardinality({k \in DOMAIN RespondEvents : RespondEvents[k].i = i}) = 1
            /\ \A k \in DOMAIN RespondEvents :
                  RespondEvents[k].i = i =>
                      /\ k = Len(out)
                      /\ out[k] = [success |-> TRUE, data |-> [status |-> "closed"]]

C3_Witness ==
    /\ pc = "done" /\ Len(stdin) = 2 /\ pos = 1
    /\ IsCloseLine(stdin[1]) /\ ~WhitespaceOnly(stdin[2])
    /\ Len(out) = 2

\* C4: the loop body on a line that is no JSON, or JSON but no object, or an
\* object without an action, writes exactly one response, with success=false
\* and a non-empty error; it makes no driver call, leaves the page and the
\* session as they were, and goes back to reading the next line.
C4_MalformedLineFails ==
    [][(pc = "body" /\ Malformed(line)) =>
          /\ WritesOne
          /\ IsFailure(LastOut)
          /\ \A k \in DOMAIN NewEvents : ~IsCall(NewEvents[k])
          /\ page' = page /\ session' = session
          /\ pc' = "read" /\ pos' = pos]_vars

C4_Witness ==
    /\ pc = "read" /\ pos = 2 /\ Len(out) = 3
    /\ stdin[1].t = "text"
    /\ IsObject(stdin[2]) /\ stdin[2].o.action.ty = "absent"
    /\ out[2].success = FALSE /\ out[3].success = FALSE

DriverCommand(l) ==
    /\ IsObject(l)
    /\ l.o.action.ty = "str"
    /\ l.o.action.s \in {"Navigate", "Click", "Type", "Screenshot", "ReadPage"}

\* What the original claim asks of a command during which a driver call raised.
FailureReported ==
    /\ WritesOne
    /\ IsFailure(LastOut)
    /\ \E e \in {TimeoutError, DriverError} : LastOut.error = e.kind \o ": " \o e.msg
    /\ session' = session /\ session' = LiveSession
    /\ pc' = "read" /\ pos' = pos

\* A driver call of the step raised and nothing inside the command caught it:
\* it is no call of the extractor, and it is not a selector click whose text
\* click went through.
UncaughtRaise ==
    \E k \in DOMAIN NewEvents :
        /\ NewEvents[k].e = "call_raised"
        /\ NewEvents[k].what \notin {"evaluate", "inner_text"}
        /\ ~ /\ NewEvents[k].what = "click"
             /\ NewEvents[k + 1].e = "call"

\* C5, as claimed: whenever a driver call raises during Navigate, Click, Type,
\* Screenshot or ReadPage, the command is answered by one success=false
\* response "<kind>: <message>", the session stays live and the loop goes on.
C5_AnyRaiseFailsTheCommand ==
    [][(pc = "body" /\ DriverCommand(line)
        /\ \E k \in DOMAIN NewEvents : NewEvents[k].e = "call_raised")
       => FailureReported]_vars

\* C5, amended: when a driver call raises during Navigate, Click, Type,
\* Screenshot or ReadPage and nothing inside the command catches it, the
\* command is answered by exactly one success=false response whose error is
\* "<kind>: <message>", the session stays live, the loop goes back to reading
\* the next line, and the process that leaves the loop exits with status 0.
C5_UncaughtRaiseFailsTheCommand ==
    /\ [][(pc = "body" /\ DriverCommand(line) /\ UncaughtRaise) => FailureReported]_vars
    /\ [](Started /\ pc = "done" => exitStatus = 0)
    /\ [](Started /\ pc \in {"read", "body", "cleanup"} => session = LiveSession)

C5_Witness ==
    /\ pc = "done" /\ pos = 2 /\ Len(out) = 3 /\ exitStatus = 0
    /\ DriverCommand(stdin[1]) /\ DriverCommand(stdin[2])
    /\ out[2] = [success |-> FALSE, error |-> "TimeoutError: Timeout 30000ms exceeded."]
    /\ \E k \in DOMAIN log : log[k] = [e |-> "call_raised", i |-> 1, what |-> "fill"]
    /\ \E k \in DOMAIN log : log[k] = [e |-> "dispatch", i |-> 2, what |-> "ReadPage"]
    /\ out[3].success = TRUE

Closes == { i \in 1..Len(stdin) : IsCloseLine(stdin[i]) }
\* The line at which the loop has to end: the first Close, or the last line.
LoopEnd ==
    IF Closes = {} THEN Len(stdin)
    ELSE CHOOSE i \in Closes : \A j \in Closes : i <= j

\* C6: after a successful startup the loop is left exactly at the first Close
\* command or at end of input, whichever comes first; teardown then runs, once
\* by the time the process is done and not before the loop is left, and after
\* its first release step nothing is read, dispatched or called.
C6_LoopEndsThenTeardownOnce ==
    /\ (Started /\ pc \in {"cleanup", "done"}) => pos = LoopEnd
    /\ (Started /\ pc \in {"read", "body"}) =>
          \A i \in 1..Handled : ~IsCloseLine(stdin[i])
    /\ (Started /\ pc = "done") =>
          Cardinality({k \in DOMAIN log :
                         log[k] .e = "release" /\ log[k].what = "context.close"}) = 1
    /\ pc # "done" => ReleaseEvents = <<>>
    /\ \A m, n \in DOMAIN log :
          (m < n /\ log[m].e = "release") => log[n].e = "release"

C6_Witness ==
    /\ Started /\ pc = "done" /\ Len(stdin) = 2 /\ pos = 2
    /\ DriverCommand(stdin[1]) /\ ~IsCloseLine(stdin[2]) /\ ~WhitespaceOnly(stdin[2])
    /\ Len(ReleaseEvents) = 3

\* C7, as claimed: every teardown attempts all three release steps, whether
\* or not one of them fails.
C7_EveryReleaseAttempted ==
    (Started /\ pc = "done") =>
        \A step \in {"context.close", "browser.close", "pw.stop"} :
            \E k \in DOMAIN ReleaseEvents : ReleaseEvents[k].what = step

\* C8: the release steps teardown attempts are context, browser, driver, in
\* that order; teardown writes no response line, and whether or not a step
\* failed the process ends with status 0.
C8_TeardownOrderedAndSilent ==
    /\ [k \in DOMAIN ReleaseEvents |-> ReleaseEvents[k].what]
         = SubSeq(<<"context.close", "browser.close", "pw.stop">>, 1, Len(ReleaseEvents))
    /\ Len(ReleaseEvents) <= 3
    /\ (Started /\ pc = "done") => Len(ReleaseEvents) >= 1 /\ exitStatus = 0
    /\ Len(out) = Len(RespondEvents)
    /\ \A m, n \in DOMAIN log :
          (m < n /\ log[m].e = "release") => log[n].e # "respond"

C8_Witness ==
    /\ Started /\ pc = "done" /\ exitStatus = 0
    /\ Len(ReleaseEvents) = 2
    /\ ReleaseEvents[2] = [e |-> "release", i |-> 0, what |-> "browser.close"]

\* C9: when the driver library cannot be imported, the process acquires no
\* driver, browser, context or page, writes exactly one response, a failure
\* that names the missing dependency and not the ready line, reads no input,
\* and exits with status 0.
C9_MissingLibraryOneError ==
    ~playwright =>
        /\ session = [pw |-> "none", browser |-> "none", context |-> "none", page |-> "none"]
        /\ pos = 0
        /\ pc \in {"start", "done"}
        /\ pc = "start" => out = <<>>
        /\ pc = "done" =>
              /\ Len(out) = 1
              /\ IsFailure(out[1])
              /\ out[1].error = "playwright not installed. Run: pip install playwright && playwright install chromium"
              /\ log = <<[e |-> "respond", i |-> 0, what |-> ""]>>
              /\ exitStatus = 0

C9_Witness == ~playwright /\ pc = "done" /\ Len(stdin) = 2 /\ Len(out) = 1

Unrecognized(a) ==
    ~(a.ty = "str" /\ a.s \in {"Navigate", "Click", "Type", "Screenshot", "ReadPage", "Close"})
\* The action as the error message shows it: the string itself, nothing for
\* an absent action, None for a null.
ActionText(a) == IF a.ty = "str" THEN a.s ELSE IF a.ty = "absent" THEN "" ELSE "None"

\* C10: a command whose action is none of the six, an absent action and a
\* different letter case included, is answered by
\* {success:false, error:"Unknown action: <action>"}; no driver call is made
\* and the page and session are unchanged.
C10_UnknownActionNoEffect ==
    [][(pc = "body" /\ IsObject(line) /\ Unrecognized(line.o.action)) =>
          /\ WritesOne
          /\ LastOut = [success |-> FALSE,
                        error |-> "Unknown action: " \o ActionText(line.o.action)]
          /\ \A k \in DOMAIN NewEvents : ~IsCall(NewEvents[k])
          /\ page' = page /\ session' = session]_vars

C10_Witness ==
    /\ pc = "read" /\ pos = 2 /\ Len(out) = 3
    /\ IsObject(stdin[1]) /\ stdin[1].o.action = [ty |-> "str", s |-> "navigate"]
    /\ IsObject(stdin[2]) /\ stdin[2].o.action.ty = "absent"
    /\ out[2] = [success |-> FALSE, error |-> "Unknown action: navigate"]
    /\ out[3] = [success |-> FALSE, error |-> "Unknown action: "]
    /\ page = [url |-> "about:blank", dom |-> "d0"]

\* The line is the command object with this action.
HasAction(l, a) == IsObject(l) /\ l.o.action = [ty |-> "str", s |-> a]

\* A parameter that is absent, null or the empty string.
Falsy(v) == ~(v.ty = "str" /\ v.s # "")

\* The first required parameter the command lacks, "" when it lacks none.
MissingField(l) ==
    IF HasAction(l, "Navigate") THEN (IF Falsy(l.o.url) THEN "url" ELSE "")
    ELSE IF HasAction(l, "Click") THEN (IF Falsy(l.o.selector) THEN "selector" ELSE "")
    ELSE IF HasAction(l, "Type")
    THEN (IF Falsy(l.o.selector) THEN "selector"
          ELSE IF Falsy(l.o.text) THEN "text" ELSE "")
    ELSE ""

\* The names of the driver calls of the step, in order.
NewCalls == SelectSeq(NewEvents, IsCall)

\* C11: a Navigate, Click or Type that lacks a required parameter (absent or
\* empty) is answered by success=false, "Missing '<field>' parameter" naming
\* the field, with no driver call and the page and session unchanged; a step
\* of these commands that makes a driver call lacks no required parameter.
C11_RequiredParametersFirst ==
    [][(pc = "body" /\ IsObject(line)) =>
          /\ MissingField(line) # "" =>
                /\ WritesOne
                /\ LastOut = [success |-> FALSE,
                              error |-> "Missing '" \o MissingField(line) \o "' parameter"]
                /\ NewCalls = <<>>
                /\ page' = page /\ session' = session
          /\ (NewCalls # <<>> /\ (HasAction(line, "Navigate") \/ HasAction(line, "Click")
                                   \/ HasAction(line, "Type")))
                => MissingField(line) = ""]_vars

C11_Witness ==
    /\ pc = "read" /\ pos = 2 /\ Len(out) = 3
    /\ HasAction(stdin[1], "Navigate") /\ stdin[1].o.url.ty = "absent"
    /\ HasAction(stdin[2], "Click") /\ stdin[2].o.selector.ty = "absent"
    /\ out[2] = [success |-> FALSE, error |-> "Missing 'url' parameter"]
    /\ out[3] = [success |-> FALSE, error |-> "Missing 'selector' parameter"]
    /\ \A k \in DOMAIN log : ~IsCall(log[k])

\* C12: a Type with a non-empty selector and a missing or empty text is
\* answered by the missing-parameter error for text before the selector is
\* ever handed to the driver; a Type that lacks both is answered by the error
\* for selector.
C12_TypeMissingText ==
    [][(pc = "body" /\ HasAction(line, "Type")) =>
          /\ (~Falsy(line.o.selector) /\ Falsy(line.o.text)) =>
                /\ WritesOne
                /\ LastOut = [success |-> FALSE, error |-> "Missing 'text' parameter"]
                /\ NewCalls = <<>>
          /\ (Falsy(line.o.selector) /\ Falsy(line.o.text)) =>
                /\ WritesOne
                /\ LastOut = [success |-> FALSE, error |-> "Missing 'selector' parameter"]
                /\ NewCalls = <<>>]_vars

C12_Witness ==
    /\ pc = "read" /\ pos = 2 /\ Len(out) = 3
    /\ HasAction(stdin[1], "Type") /\ stdin[1].o.selector.ty = "str"
    /\ stdin[1].o.text = [ty |-> "str", s |-> ""]
    /\ HasAction(stdin[2], "Type") /\ stdin[2].o.selector.ty = "absent"
    /\ stdin[2].o.text.ty = "absent"
    /\ out[2] = [success |-> FALSE, error |-> "Missing 'text' parameter"]
    /\ out[3] = [success |-> FALSE, error |-> "Missing 'selector' parameter"]

\* The step made this driver call, and it returned, or raised.
CallReturned(name) ==
    \E k \in DOMAIN NewCalls : NewCalls[k].e = "call" /\ NewCalls[k].what = name
CallRaised(name) ==
    \E k \in DOMAIN NewCalls : NewCalls[k].e = "call_raised" /\ NewCalls[k].what = name

\* What C13 says of the clicks themselves: the selector click comes first, the
\* text click is attempted exactly when the selector click failed, and a Click
\* whose two clicks fail is answered by one success=false response.
ClickAttempts ==
    /\ NewCalls # <<>> /\ NewCalls[1].what = "click"
    /\ (CallReturned("get_by_text.click") \/ CallRaised("get_by_text.click"))
          <=> CallRaised("click")
    /\ CallRaised("click") =>
          NewCalls[2].what = "get_by_text.click"
    /\ (CallRaised("click") /\ CallRaised("get_by_text.click")) =>
          WritesOne /\ IsFailure(LastOut) /\ Len(NewCalls) = 2
ClickWentThrough == CallReturned("click") \/ CallReturned("get_by_text.click")
ClickedAnswer ==
    /\ WritesOne
    /\ LastOut.success = TRUE
    /\ DOMAIN LastOut.data = {"clicked", "title", "url"}
    /\ LastOut.data.clicked = line.o.selector

\* C13, as claimed: a Click tries the selector click first and the text click
\* exactly when the selector click failed, both failing is answered by one
\* success=false, and a Click one of whose clicks succeeds and whose wait for
\* DOM-content-loaded succeeds is answered by success=true with data.clicked
\* the selector string given.
C13_ClickFallback ==
    [][(pc = "body" /\ HasAction(line, "Click") /\ ~Falsy(line.o.selector)) =>
          /\ ClickAttempts
          /\ (ClickWentThrough /\ CallReturned("wait_for_load_state")) => ClickedAnswer]_vars

\* C13, amended: a Click tries the selector click first and the text click
\* exactly when the selector click failed, both failing is answered by one
\* success=false, and a Click one of whose clicks succeeds and whose wait for
\* DOM-content-loaded and reading of the page title both succeed is answered
\* by success=true with data.clicked the selector string given.
C13_ClickFallbackTitleRead ==
    [][(pc = "body" /\ HasAction(line, "Click") /\ ~Falsy(line.o.selector)) =>
          /\ ClickAttempts
          /\ (ClickWentThrough /\ CallReturned("wait_for_load_state")
               /\ CallReturned("title")) => ClickedAnswer]_vars

C13_Witness ==
    /\ pc = "read" /\ pos = 1 /\ Len(out) = 2
    /\ HasAction(stdin[1], "Click")
    /\ \E k \in DOMAIN log :
          /\ log[k] = [e |-> "call_raised", i |-> 1, what |-> "click"]
          /\ log[k + 1] = [e |-> "call", i |-> 1, what |-> "get_by_text.click"]
    /\ out[2].success = TRUE
    /\ out[2].data.clicked = [ty |-> "str", s |-> "s1"]

\* The text extract_readable had in hand before it applied the cap.
RawText ==
    IF extracted.path = "structured" THEN Evaluate(doc) ELSE InnerTextOf(doc)

Capped == xpc = "done" /\ extracted.path \in {"structured", "fallback"}

\* C14: on the structured path and on the plain-text fallback, a text longer
\* than 50,000 characters is returned as its first 50,000 characters followed
\* by a marker that states the original length, and a text of 50,000
\* characters or fewer is returned as it is, with no marker.
C14_TruncatedOnlyBeyondTheCap ==
    Capped =>
        IF TLen(RawText) > 50000
        THEN /\ SubSeq(extracted.content, 1, Len(extracted.content) - 2)
                    = Take(RawText, 50000)
             /\ TLen(Take(RawText, 50000)) = 50000
             /\ SubSeq(extracted.content, Len(extracted.content) - 1,
                       Len(extracted.content))
                    = <<Run("\n", 2),
                        Run("[Truncated - " \o ToString(TLen(RawText)) \o " total chars]", 1)>>
        ELSE extracted.content = RawText

\* A structured extraction of more than 50,000 characters came back cut.
C14_Witness ==
    /\ Capped
    /\ extracted.path = "structured"
    /\ TLen(RawText) = 50001
    /\ TLen(extracted.content) > 50000
    /\ extracted.content # RawText

\* An extraction of exactly 50,000 characters came back as it was.
C14_AtTheCap ==
    /\ Capped
    /\ TLen(RawText) = 50000
    /\ extracted.content = RawText

\* The step runs a Navigate or a ReadPage as far as the extraction.
Extracts ==
    /\ pc = "body"
    /\ HasAction(line, "Navigate") \/ HasAction(line, "ReadPage")
    /\ CallReturned("evaluate") \/ CallRaised("evaluate")

\* The driver calls of the step that extract_readable made.
ExtractionCalls ==
    SelectSeq(NewCalls, LAMBDA ev : ev.what \in {"evaluate", "inner_text"})

\* C15: a Navigate or ReadPage that reaches the extraction is answered by
\* success whatever the extraction meets: the structured text when the script
\* returns, the plain body text when the script throws, the fixed placeholder
\* when the plain text throws as well; the plain text is asked for only after
\* the script threw, and the placeholder is returned only after both threw.
C15_ExtractionDegrades ==
    [][/\ Extracts =>
            /\ WritesOne
            /\ LastOut.success /\ DOMAIN LastOut = {"success", "data"}
            /\ page' = page \/ HasAction(line, "Navigate")
            /\ CallReturned("evaluate") =>
                   /\ ExtractionCalls = <<Ev("call", pos, "evaluate")>>
                   /\ LastOut.data.content = Truncate(StructuredText(page'))
            /\ (CallRaised("evaluate") /\ CallReturned("inner_text")) =>
                   /\ ExtractionCalls = <<Ev("call_raised", pos, "evaluate"),
                                          Ev("call", pos, "inner_text")>>
                   /\ LastOut.data.content = Truncate(InnerText(page'))
            /\ (CallRaised("evaluate") /\ ~CallReturned("inner_text")) =>
                   /\ ExtractionCalls = <<Ev("call_raised", pos, "evaluate"),
                                          Ev("call_raised", pos, "inner_text")>>
                   /\ LastOut.data.content = <<Run("(could not extract page content)", 1)>>
            /\ LastOut.data.content = <<Run("(could not extract page content)", 1)>>
                   => CallRaised("evaluate") /\ CallRaised("inner_text")
       /\ (CallReturned("inner_text") \/ CallRaised("inner_text")) => Extracts]_vars

\* A ReadPage whose script and whose plain text both threw was answered by
\* success and the placeholder, and the next line is being read.
C15_Witness ==
    /\ pc = "read" /\ pos = 1 /\ Len(out) = 2
    /\ HasAction(stdin[1], "ReadPage")
    /\ out[2].success
    /\ out[2].data.content = <<Run("(could not extract page content)", 1)>>
    /\ \E j, k \in DOMAIN log :
          /\ j < k
          /\ log[j] = Ev("call_raised", 1, "evaluate")
          /\ log[k] = Ev("call_raised", 1, "inner_text")

\* C16: every response line written (ready, startup error, command success,
\* command failure) has a boolean success field, and has data and no error
\* when success is true, error and no data when success is false.
C16_DataOrErrorBySuccess ==
    \A k \in DOMAIN out :
        /\ "success" \in DOMAIN out[k]
        /\ out[k].success \in BOOLEAN
        /\ "data" \in DOMAIN out[k] <=> out[k].success
        /\ "error" \in DOMAIN out[k] <=> ~out[k].success

\* The ready line, then a command that failed and a command that succeeded.
C16_Witness ==
    /\ pc = "done" /\ Len(out) = 3
    /\ out[1] = ReadyResponse
    /\ ~out[2].success /\ out[2].error # ""
    /\ out[3].success /\ DOMAIN out[3].data # {}

\* The startup error of a missing library was written, and nothing else.
C16_StartupError == pc = "done" /\ ~playwright /\ Len(out) = 1 /\ ~out[1].success

Range(f) == { f[k] : k \in DOMAIN f }

\* The return statement by which the extraction of line i left, "" when the
\* line ran no extraction.
PathOf(i) ==
    IF Ev("call", i, "evaluate") \in Range(log) THEN "structured"
    ELSE IF Ev("call", i, "inner_text") \in Range(log) THEN "fallback"
    ELSE IF Ev("call_raised", i, "inner_text") \in Range(log) THEN "placeholder"
    ELSE ""

\* The k-th and the next command answered are both ReadPage, both answered by
\* success: two consecutive ReadPage commands, the page untouched in between.
TwoReadPages(k) ==
    /\ k \in 1..(Len(Answered) - 1)
    /\ HasAction(stdin[Answered[k]], "ReadPage")
    /\ HasAction(stdin[Answered[k + 1]], "ReadPage")
    /\ out[k + 1].success /\ out[k + 2].success

FirstOr(n, Is(_), otherwise) ==
    IF SelectSeq(Descendants(n), Is) = <<>> THEN otherwise
    ELSE SelectSeq(Descendants(n), Is)[1]

\* The content region the priority order names: a main element if there is
\* one, otherwise an article, otherwise an element of role main, otherwise an
\* element of class or id content, otherwise the cleaned body.
PriorityRegion(clone) ==
    FirstOr(clone, LAMBDA n : n.tag = "main",
      FirstOr(clone, LAMBDA n : n.tag = "article",
        FirstOr(clone, LAMBDA n : n.mark = "role=main",
          FirstOr(clone, LAMBDA n : n.mark \in {".content", "#content"}, clone))))

\* C19: the structured extraction returns the text of the region chosen in
\* priority order (main, then article, then role main, then the content
\* class or id, then the whole cleaned body), whatever the document order of
\* the candidates.
C19_RegionByPriority ==
    (xpc = "done" /\ extracted.path = "structured") =>
        extracted.content =
            Truncate(Trim(CollapseNewlines(Join(walk(PriorityRegion(RemoveDenied(doc)))))))

\* An article that comes before a main in the document was extracted.
C19_ArticleBeforeMain ==
    /\ xpc = "done" /\ extracted.path = "structured"
    /\ Len(doc.kids) = 2
    /\ doc.kids[1].tag = "article" /\ doc.kids[2].tag = "main"
    /\ extracted.content = Chars("b", 3)

\* The text holds a character of a denylisted element.
HasDenylistedText(t) == \E k \in DOMAIN t : t[k].c = "x"

\* C20, as claimed: on whichever path the content was produced, it holds no
\* text of a script, style, nav, footer, header, aside, iframe, noscript, svg
\* or canvas element.
C20_NoDenylistedTextOnAnyPath ==
    xpc = "done" => ~HasDenylistedText(extracted.content)

\* C20, amended: the content of the structured path, and the placeholder,
\* hold no text of a denylisted element.
C20_NoDenylistedTextStructured ==
    (xpc = "done" /\ extracted.path \in {"structured", "placeholder"})
        => ~HasDenylistedText(extracted.content)

\* A page with a nav and, inside its content region, an aside was extracted
\* on the structured path: the text around them came back, theirs did not.
C20_Witness ==
    /\ xpc = "done" /\ extracted.path = "structured"
    /\ Len(doc.kids) = 2
    /\ doc.kids[1].tag = "nav"
    /\ doc.kids[2].mark = ".content" /\ doc.kids[2].kids[1].tag = "aside"
    /\ extracted.content = Chars("d", 2)

\* The plain-text fallback returned the text of a nav element.
C20_FallbackShowsNav ==
    /\ xpc = "done" /\ extracted.path = "fallback"
    /\ Len(doc.kids) = 1 /\ doc.kids[1].tag = "nav"
    /\ extracted.content = Chars("x", 4)

\* How many times the event is in the history of Agent.run.
Times(what) == Cardinality({ k \in DOMAIN alog : alog[k] = what })

\* The handler was called and raised (an Exception, or SystemExit).
HandlerRaised == Times("handler") = 1 /\ agent.outcome \in {"raises", "exits"}

ReachesHandler ==
    /\ agent.handler
    /\ agent.setup # "raises"
    /\ agent.input \in {"empty", "object", "object_nomsg"}

\* The handler returned something respond can serialise.
HandlerAnswers == agent.outcome \notin {"raises", "exits", "unserialisable"}

C18_SetupRaised ==
    /\ apc = "exited" /\ agent.handler /\ agent.setup = "raises"
    /\ Times("handler") = 0 /\ aexit = 1 /\ Len(aout) = 1

\* C21: a ReadPage or a Screenshot leaves the URL and the DOM of the page as
\* they were; the extraction of a Navigate leaves the page that goto loaded,
\* the one whose title was read before it; and a step that changes the page
\* runs a Navigate, a Click or a Type.
C21_ReadsLeaveThePage ==
    [][/\ (pc = "body" /\ (HasAction(line, "ReadPage") \/ HasAction(line, "Screenshot")))
             => page' = page
       /\ (pc = "body" /\ HasAction(line, "Navigate") /\ CallReturned("title")) =>
             /\ page' \in Loaded(line.o.url.s)
             /\ WritesOne /\ LastOut.success
             /\ LastOut.data.title = "title:" \o page'.dom
             /\ LastOut.data.url = page'.url
       /\ page' # page =>
             /\ pc = "body"
             /\ HasAction(line, "Navigate") \/ HasAction(line, "Click")
                   \/ HasAction(line, "Type")]_vars

\* A Navigate loaded a page with a nav element and extracted it, a ReadPage
\* extracted it again on the structured path, and the page is the one loaded.
C21_Witness ==
    /\ pc = "read" /\ pos = 2 /\ Len(out) = 3
    /\ HasAction(stdin[1], "Navigate") /\ HasAction(stdin[2], "ReadPage")
    /\ out[2].success /\ out[3].success
    /\ PathOf(1) = "structured" /\ PathOf(2) = "structured"
    /\ page = [url |-> "u1", dom |-> "d1"]
    /\ out[3].data.content = out[2].data.content
    /\ out[3].data.content # <<>>

\* The complete lines of the whole body, stripped.
CompleteLines ==
    LET lines == Front(split(decode(resp).s))
    IN  [k \in DOMAIN lines |-> strip(lines[k])]

IsDataLine(l) == Len(l) >= 6 /\ SubSeq(l, 1, 6) = <<"d", "a", "t", "a", ":", " ">>
PayloadOf(l) == SubSeq(l, 7, Len(l))
IsDoneLine(l) == IsDataLine(l) /\ PayloadOf(l) = <<"[", "D", "O", "N", "E", "]">>

\* The complete lines before the first [DONE] line.
BeforeDone ==
    IF \E k \in DOMAIN CompleteLines : IsDoneLine(CompleteLines[k])
    THEN SubSeq(CompleteLines, 1,
                (CHOOSE k \in DOMAIN CompleteLines :
                    /\ IsDoneLine(CompleteLines[k])
                    /\ \A j \in 1..(k - 1) : ~IsDoneLine(CompleteLines[j])) - 1)
    ELSE CompleteLines

\* One event per complete data line before [DONE], in order: parsed when the
\* payload is JSON, raw otherwise.
ExpectedEvents ==
    LET data == SelectSeq(BeforeDone, IsDataLine)
    IN  [k \in DOMAIN data |->
            [kind |-> IF PayloadOf(data[k]) \in {<<"1">>, <<"{", "}">>, <<"\"", "U+E9", "\"">>}
                      THEN "json" ELSE "raw",
             text |-> PayloadOf(data[k])]]

StreamOver == spc \in {"returned", "closed", "raised"}

\* C22: whatever the chunks the body is read in, the stream ends without an
\* exception and has yielded one event per complete data line (the line
\* stripped of surrounding whitespace) before the first [DONE], in stream
\* order, a JSON payload parsed and any other raw, nothing for the other
\* lines and nothing after [DONE].
C22_EventsWhateverTheChunks ==
    StreamOver => (spc # "raised" /\ yielded = ExpectedEvents)

\* What holds: a stream in which no read cuts a character in two yields the
\* expected events, and up to the read that does, a prefix of them.
C22_EventsUnlessCharacterCut ==
    LET expected == ExpectedEvents
    IN  /\ (StreamOver /\ spc # "raised") => yielded = expected
        /\ Len(yielded) <= Len(expected)
        /\ yielded = SubSeq(expected, 1, Len(yielded))

\* A read of two bytes ended between the two bytes of a character: the
\* stream raised, the event of that line never yielded.
C22_CharacterCut ==
    /\ spc = "raised" /\ readSize = 2
    /\ resp = <<"d", "a", "t", "a", ":", " ", "\"", "C3", "A9", "\"", "\n">>
    /\ yielded = <<>>

\* The same body read three bytes at a time yielded its event.
C22_CharacterWhole ==
    /\ spc = "closed" /\ readSize = 3
    /\ resp = <<"d", "a", "t", "a", ":", " ", "\"", "C3", "A9", "\"", "\n">>
    /\ yielded = <<[kind |-> "json", text |-> <<"\"", "U+E9", "\"">>]>>

\* The text has three or more newline characters in a row.
HasLongNewlineRun(t) == \E k \in DOMAIN Norm(t) : Norm(t)[k].c = "\n" /\ Norm(t)[k].n >= 3

\* The text starts with a whitespace character.
StartsWithSpace(t) == Norm(t) # <<>> /\ Norm(t)[1].c \in {" ", "\n"}
EndsWithSpace(t) == Norm(t) # <<>> /\ Norm(t)[Len(Norm(t))].c \in {" ", "\n"}

Structured == xpc = "done" /\ extracted.path = "structured"

\* C23, as claimed: content of the structured path, truncated or not, has no
\* run of three or more newlines and no leading whitespace.
C23_NoLongNewlineRun ==
    Structured =>
        /\ ~HasLongNewlineRun(extracted.content)
        /\ ~StartsWithSpace(extracted.content)

\* C23, amended: content of the structured path has no leading whitespace;
\* when it was not truncated it has no run of three or more newlines and no
\* trailing whitespace; when it was truncated its first 50,000 characters
\* have no such run.
C23_NoLongNewlineRunBeforeMarker ==
    Structured =>
        /\ ~StartsWithSpace(extracted.content)
        /\ IF TLen(Evaluate(doc)) <= 50000
           THEN /\ ~HasLongNewlineRun(extracted.content)
                /\ ~EndsWithSpace(extracted.content)
           ELSE ~HasLongNewlineRun(Take(extracted.content, 50000))

\* A table cell followed by a heading: the three newlines the join put
\* between them came back as two.
C23_Witness ==
    /\ Structured
    /\ Len(doc.kids) = 2 /\ doc.kids[1].tag = "td" /\ doc.kids[2].tag = "h1"
    /\ Join(walk(doc)) = <<Run("j", 2), Run("\n", 3), Run("#", 2), Run(" ", 1), Run("f", 2)>>
    /\ extracted.content = <<Run("j", 2), Run("\n", 2), Run("#", 2), Run(" ", 1), Run("f", 2)>>

\* A text cut after a newline: the two newlines of the marker make three.
C23_CutAfterNewline ==
    /\ Structured
    /\ TLen(Evaluate(doc)) > 50000
    /\ Norm(extracted.content)[2] = Run("\n", 3)

\* The places of the event in the history of Agent.run.
Places(what) == { k \in DOMAIN alog : alog[k] = what }

\* C24: with a handler and a teardown registered, teardown runs exactly once,
\* after setup, input, handler and response, on every path (handler returned,
\* handler raised, setup raised, input not parsed), and not before the
\* process is about to end; a teardown that raises leaves the response
\* written and the exit status as they would be; with no handler neither
\* setup nor teardown runs.
C24_TeardownOnceAfterHandler ==
    /\ [](/\ apc \in {"start", "except", "finally"} => Places("teardown") = {}
          /\ (apc = "exited" /\ agent.handler /\ agent.teardown # "none") =>
                /\ Cardinality(Places("teardown")) = 1
                /\ \A t \in Places("teardown") :
                      \A k \in Places("setup") \cup Places("read_input")
                               \cup Places("handler") \cup Places("respond") : k < t
          /\ (apc = "exited" /\ ~agent.handler) =>
                Places("setup") = {} /\ Places("teardown") = {})
    /\ [][apc = "finally" =>
             /\ aout' = aout
             /\ aexit' = (IF aexc.kind = "SystemExit" THEN aexc.code ELSE 0)]_vars

\* The handler answered and teardown raised: the answer stands, the exit
\* status is 0, and the teardown error is the last thing logged.
C24_Witness ==
    /\ apc = "exited"
    /\ agent.handler /\ agent.setup = "none" /\ agent.input = "object"
    /\ agent.outcome = "str" /\ agent.teardown = "raises"
    /\ aout = <<[type |-> "response", text |-> "You said: hi"]>>
    /\ alog = <<"read_input", "handler", "respond", "teardown",
                "log: Teardown error: teardown failed">>
    /\ aexit = 0

\* Setup raised: teardown still ran, once, after the error response.
C24_AfterSetupRaised ==
    /\ apc = "exited" /\ agent.handler
    /\ agent.setup = "raises" /\ agent.teardown = "returns"
    /\ alog = <<"setup", "log: Agent error: setup failed", "respond", "teardown">>

====
